---- MODULE Spec2Model ----
(***************************************************************************)
(* Model of the DECAF callback engine (accel/shared/decaf-callback.c):     *)
(* the per-event registries, the block-begin / block-end filter tables,    *)
(* the opcode dispatch table, the cache-invalidation calls and the         *)
(* dispatch loops.                                                         *)
(***************************************************************************)
EXTENDS Integers, Sequences, FiniteSets, TLC

----------------------------------------------------------------------------
\* Bounds of the model.

\* number of callback_struct allocations in one behaviour
MaxHandles == 3
\* allocations in one behaviour of the specifications of the filter tables and
\* of the opcode table, and of block-begin / block-end records under dispatch
MaxFilterHandles == 2
\* largest guest virtual address; gva_t is 0 .. MaxAddr
MaxAddr == 3
\* bytes in a page (scaled down); TARGET_PAGE_MASK clears the offset bits
TARGET_PAGE_SIZE == 2

----------------------------------------------------------------------------
\* Values.

Addr == 0 .. MaxAddr
\* INV_ADDR is (gva_t) -1: the all-ones, largest address
INV_ADDR == MaxAddr
\* a & TARGET_PAGE_MASK
PageOf(a) == a - (a % TARGET_PAGE_SIZE)

DECAF_NULL_HANDLE == 0
NULL == 0
Handles == 1 .. MaxHandles

NULL_POINTER_ERROR == -2

BB == "DECAF_BLOCK_BEGIN_CB"
BE == "DECAF_BLOCK_END_CB"
OPC == "DECAF_OPCODE_RANGE_CB"
TLB == "DECAF_TLB_EXEC_CB"
\* kinds whose dispatch helper is the plain list walk
PlainKinds == {"DECAF_INSN_BEGIN_CB", "DECAF_INSN_END_CB",
               "DECAF_MEM_READ_CB", "DECAF_MEM_WRITE_CB",
               "DECAF_EIP_CHECK_CB", "DECAF_KEYSTROKE_CB",
               "DECAF_NIC_REC_CB", "DECAF_NIC_SEND_CB",
               "DECAF_READ_TAINTMEM_CB", "DECAF_WRITE_TAINTMEM_CB"}
\* DECAF_callback_type_t without DECAF_LAST_CB
Kinds == {BB, BE, OPC, TLB} \cup PlainKinds
\* kinds dispatched by walking callback_list_heads[kind]
WalkKinds == Kinds \ {OPC}

OCBTypes == {"OCB_ALL", "OCB_CONST", "OCB_PAGE", "OCB_CONST_NOT", "OCB_PAGE_NOT"}

\* a condition pointer: NULL or the address of a flag owned by the plugin
NoCond == "NULL"
CondIds == {"c1"}
Conds == {NoCond} \cup CondIds

\* instructionCallbacks[0x200]
OpSlots == 0 .. 511

\* OpcodeRangeCallbackConditions: one flag per class of transition, and the
\* value that matches every class
DECAF_USER_TO_USER_ONLY == 1
DECAF_USER_TO_KERNEL_ONLY == 2
DECAF_KERNEL_TO_USER_ONLY == 4
DECAF_KERNEL_TO_KERNEL_ONLY == 8
DECAF_ALL == 15

\* a decaf_target_ulong of 32 bits as its two 16-bit halves <<high, low>>
Word32(high, low) == <<high, low>>
\* a > b on two such words
Above(a, b) == a[1] > b[1] \/ (a[1] = b[1] /\ a[2] > b[2])

\* uint32_t kernel_base = 0x80000000
kernel_base == Word32(32768, 0)

\* the & of C on two non-negative integers
RECURSIVE BitAnd(_, _)
BitAnd(a, b) ==
  IF a = 0 \/ b = 0 THEN 0
  ELSE (a % 2) * (b % 2) + 2 * BitAnd(a \div 2, b \div 2)

VARIABLES
  inited,                              \* the filter table pointers are non-NULL
  callback_list_heads,                 \* [Kinds -> Seq(Handles)], head first
  cbs,                                 \* the callback_struct behind each handle
  nextHandle,                          \* allocations made so far
  condval,                             \* the plugin-owned flags conditions point to
  bEnableAllBlockBeginCallbacks,
  enableAllBlockBeginCallbacksCount,
  bEnableAllBlockEndCallbacks,
  enableAllBlockEndCallbacksCount,
  pOBBTable,
  pOBBPageTable,
  pOBEFromPageTable,
  pOBEToPageTable,
  pOBEPageMap,
  instructionCallbacks,
  oob,                                 \* a store went past instructionCallbacks[0x1ff]
  opdisp,                              \* the last opcode-range dispatch and its outcome
  hist,                                \* the last API call: arguments, result, invalidations
  disp                                 \* the dispatch in progress or last finished

bbVars == <<bEnableAllBlockBeginCallbacks, enableAllBlockBeginCallbacksCount,
            pOBBTable, pOBBPageTable>>
beVars == <<bEnableAllBlockEndCallbacks, enableAllBlockEndCallbacksCount,
            pOBEFromPageTable, pOBEToPageTable, pOBEPageMap>>
opVars == <<instructionCallbacks, oob, opdisp>>
regVars == <<callback_list_heads, cbs, nextHandle>>
vars == <<inited, regVars, condval, bbVars, beVars, opVars, hist, disp>>

----------------------------------------------------------------------------
\* callback_struct and the QLIST of each kind.

callback_struct(enabled, from, to, ocb_type) ==
  [enabled |-> enabled, from |-> from, to |-> to, ocb_type |-> ocb_type]

\* one call of helper_decaf_invoke_opcode_range_callback: its arguments, the
\* struct found in the slot, the condition it points to with the value read,
\* and whether cb_struct->callback was called
OpcodeDispatched(cs, eip, next_eip, op, cb_struct, enabled, value, outcome) ==
  [cs |-> cs, eip |-> eip, next_eip |-> next_eip, op |-> op,
   cb_struct |-> cb_struct, enabled |-> enabled, value |-> value,
   outcome |-> outcome, cbhandle |-> NULL]

\* contents of a slot that holds no live record
NoRecord == callback_struct(NoCond, 0, 0, "OCB_ALL")

InList(l, h) == \E i \in DOMAIN l : l[i] = h
\* insertion at the tail
QLIST_INSERT_TAIL(l, h) == l \o <<h>>
QLIST_INSERT_HEAD(l, h) == <<h>> \o l
QLIST_REMOVE(l, h) == SelectSeq(l, LAMBDA x : x # h)
QLIST_FIRST(l) == IF l = <<>> THEN NULL ELSE Head(l)
\* elm->link.le_next
QLIST_NEXT(l, h) ==
  IF \E i \in DOMAIN l : l[i] = h /\ i < Len(l)
  THEN l[(CHOOSE i \in DOMAIN l : l[i] = h) + 1]
  ELSE NULL
QLIST_EMPTY(l) == l = <<>>

\* g_malloc: a fresh callback_struct
g_malloc == nextHandle + 1

----------------------------------------------------------------------------
\* Counting hashtable and hashmap (shared/decaf-hashtable-wrapper.h): a key is
\* present iff its count is positive.

EmptyTable == [k \in Addr |-> 0]
EmptyMap == [k \in Addr |-> EmptyTable]

counting_hashtable_add(t, k) == [t EXCEPT ![k] = @ + 1]
\* a decrement of an absent key is clamped to zero
counting_hashtable_remove(t, k) == IF t[k] > 0 THEN [t EXCEPT ![k] = @ - 1] ELSE t
counting_hashtable_exist(t, k) == t[k] > 0
counting_hashmap_add(m, k, v) == [m EXCEPT ![k] = counting_hashtable_add(@, v)]
counting_hashmap_remove(m, k, v) == [m EXCEPT ![k] = counting_hashtable_remove(@, v)]
counting_hashmap_exist(m, k, v) == m[k][v] > 0

----------------------------------------------------------------------------
\* Translation-time queries.

\* one record is not enough
decaf_is_callback_needed_Several(cb_type) == Len(callback_list_heads[cb_type]) > 1

decaf_is_callback_needed(cb_type) == ~QLIST_EMPTY(callback_list_heads[cb_type])

decaf_is_callback_needed_for_opcode(op) ==
  op < 512 /\ instructionCallbacks[op] # NULL

decaf_is_block_begin_callback_needed(pc) ==
  IF bEnableAllBlockBeginCallbacks = 1 THEN TRUE
  ELSE IF counting_hashtable_exist(pOBBPageTable, PageOf(pc)) THEN TRUE
  ELSE counting_hashtable_exist(pOBBTable, pc)

\* the unknown target is looked up like any other
decaf_is_block_end_callback_needed_NoMarker(from, to) ==
  IF bEnableAllBlockEndCallbacks = 1 THEN TRUE
  ELSE IF counting_hashtable_exist(pOBEFromPageTable, PageOf(from)) THEN TRUE
  ELSE IF counting_hashtable_exist(pOBEToPageTable, PageOf(to)) THEN TRUE
  ELSE counting_hashmap_exist(pOBEPageMap, PageOf(from), PageOf(to))

\* to = INV_ADDR: the target is not known at translation time
decaf_is_block_end_callback_needed(from, to) ==
  IF bEnableAllBlockEndCallbacks = 1 THEN TRUE
  ELSE IF counting_hashtable_exist(pOBEFromPageTable, PageOf(from)) THEN TRUE
  ELSE IF to = INV_ADDR THEN FALSE
  ELSE IF counting_hashtable_exist(pOBEToPageTable, PageOf(to)) THEN TRUE
  ELSE counting_hashmap_exist(pOBEPageMap, PageOf(from), PageOf(to))

----------------------------------------------------------------------------
\* The record of an API call.

ALL_CACHE == "ALL_CACHE"
PAGE_LEVEL == "PAGE_LEVEL"
\* register_decaf_flush_translation_cache(type, addr), as a log entry
register_decaf_flush_translation_cache(type, addr) == <<type, addr>>

Call(op, args) == [op |-> op, args |-> args]

\* hist after the call: its result, the struct it inserted or removed, the
\* invalidations it issued, and the answers of the two block queries when it
\* was entered
Returned(call, ret, rec, flushes) ==
  [op |-> call.op, args |-> call.args, ret |-> ret, rec |-> rec,
   flushes |-> flushes,
   bbBefore |-> {pc \in Addr : decaf_is_block_begin_callback_needed(pc)},
   beBefore |-> {ft \in Addr \X Addr :
                   decaf_is_block_end_callback_needed(ft[1], ft[2])}]

\* the single execution thread is outside the dispatch helpers or inside a
\* handler one of them has called
CallAllowed == disp.pc \in {"idle", "handler"}

----------------------------------------------------------------------------
\* disp while no dispatch helper is running; prevSkipped is the set of records
\* the last walk of this kind passed over because their flag was zero, and
\* prevLate the set of records registered while that walk was in progress
Idle(kind, prevSkipped) ==
  [kind |-> kind, pc |-> "idle", walked |-> FALSE, cb_struct |-> NULL,
   cb_next |-> NULL, cur_pc |-> 0, next_pc |-> 0, invoked |-> <<>>,
   snap |-> <<>>, expect |-> {}, skipped |-> {}, prevSkipped |-> prevSkipped,
   uaf |-> FALSE, cbhandle |-> NULL, prevLate |-> {}]

\* the state of the statics at program start; kind is the event kind whose
\* dispatch helper the behaviour exercises
InitState(kind) ==
  /\ inited = FALSE
  /\ callback_list_heads = [k \in Kinds |-> <<>>]
  /\ cbs = [h \in Handles |-> NoRecord]
  /\ nextHandle = 0
  /\ condval = [c \in CondIds |-> 0]
  /\ bEnableAllBlockBeginCallbacks = 0
  /\ enableAllBlockBeginCallbacksCount = 0
  /\ bEnableAllBlockEndCallbacks = 0
  /\ enableAllBlockEndCallbacksCount = 0
  /\ pOBBTable = EmptyTable
  /\ pOBBPageTable = EmptyTable
  /\ pOBEFromPageTable = EmptyTable
  /\ pOBEToPageTable = EmptyTable
  /\ pOBEPageMap = EmptyMap
  /\ instructionCallbacks = [i \in OpSlots |-> NULL]
  /\ oob = FALSE
  /\ opdisp = OpcodeDispatched(NULL, Word32(0, 0), Word32(0, 0), 0, NULL, NoCond, 0,
                               "none")
  /\ hist = [op |-> "none", args |-> <<>>, ret |-> 0, rec |-> NoRecord, flushes |-> <<>>,
             bbBefore |-> {}, beBefore |-> {}]
  /\ disp = Idle(kind, {})

Init == InitState(BB)
InitDispatch == \E kind \in WalkKinds : InitState(kind)

\* decaf_callback_init, run once
decaf_callback_init ==
  /\ ~inited
  /\ disp.pc = "idle"
  /\ inited' = TRUE
  /\ callback_list_heads' = [k \in Kinds |-> <<>>]
  /\ cbs' = [h \in Handles |-> NoRecord]
  /\ pOBBTable' = EmptyTable
  /\ pOBBPageTable' = EmptyTable
  /\ pOBEFromPageTable' = EmptyTable
  /\ pOBEToPageTable' = EmptyTable
  /\ pOBEPageMap' = EmptyMap
  /\ bEnableAllBlockBeginCallbacks' = 0
  /\ enableAllBlockBeginCallbacksCount' = 0
  /\ bEnableAllBlockEndCallbacks' = 0
  /\ enableAllBlockEndCallbacksCount' = 0
  /\ hist' = Returned(Call("decaf_callback_init", <<>>), 0, NoRecord, <<>>)
  /\ UNCHANGED <<nextHandle, condval, opVars, disp>>

----------------------------------------------------------------------------
\* Pieces shared by the registration and unregistration functions.

\* QLIST_INSERT_HEAD of the new callback_struct and return of its handle
InsertAndReturn(call, cb_type, rec, flushes) ==
  /\ callback_list_heads' =
       [callback_list_heads EXCEPT ![cb_type] = QLIST_INSERT_HEAD(@, g_malloc)]
  /\ cbs' = [cbs EXCEPT ![g_malloc] = rec]
  /\ nextHandle' = g_malloc
  /\ hist' = Returned(call, g_malloc, rec, flushes)

\* QLIST_REMOVE and g_free of the record found, and return of ret
RemoveAndReturn(call, cb_type, handle, ret, flushes) ==
  /\ callback_list_heads' =
       [callback_list_heads EXCEPT ![cb_type] = QLIST_REMOVE(@, handle)]
  /\ cbs' = [cbs EXCEPT ![handle] = NoRecord]
  /\ nextHandle' = nextHandle
  /\ hist' = Returned(call, ret, cbs[handle], flushes)

\* the table pointers are not tested
FilterTableIsNull_Never == FALSE

\* pOBBPageTable == NULL, pOBEFromPageTable == NULL, pOBEToPageTable == NULL,
\* pOBEPageMap == NULL: the tables are created together by decaf_callback_init
FilterTableIsNull == ~inited

\* a return that invalidates the whole cache on its way out
ReturnOnly_Flushing(call, ret) ==
  /\ hist' = Returned(call, ret, NoRecord,
                      <<register_decaf_flush_translation_cache(ALL_CACHE, 0)>>)
  /\ UNCHANGED <<inited, regVars, condval, bbVars, beVars, opVars, disp>>

\* return of ret with no store made (a g_malloc'ed struct, if any, was g_free'd)
ReturnOnly(call, ret) ==
  /\ hist' = Returned(call, ret, NoRecord, <<>>)
  /\ UNCHANGED <<inited, regVars, condval, bbVars, beVars, opVars, disp>>

\* the test made one registration late
JustBecameOne_OffByOne(count) == count = 2
\* "it just transitioned from 0 to 1": the test on a count after an increment
JustBecameOne(count) == count = 1
\* the last record of a key leaves without a flush
NowZero_Never(count) == FALSE

\* "if its now zero flush the cache": the test on a count after a decrement
NowZero(count) == count = 0

\* the decremented count is stored as it is
ResetUnderflow_Kept(count) == count

\* "if it underflowed then reset to 0": the count stored after a decrement
ResetUnderflow(count) == IF count < 0 THEN 0 ELSE count

----------------------------------------------------------------------------
\* Block begin.

BlockBeginRegister(call, cb_cond, addr, type0) ==
  LET type == IF type0 = "OCB_CONST" THEN "OCB_ALL" ELSE type0
      rec == callback_struct(cb_cond, addr, INV_ADDR, type)
  IN
  /\ CallAllowed
  /\ nextHandle < MaxHandles
  /\ CASE type = "OCB_PAGE" ->
            IF FilterTableIsNull
            THEN ReturnOnly(call, DECAF_NULL_HANDLE)
            ELSE LET t == counting_hashtable_add(pOBBPageTable, PageOf(addr)) IN
                 /\ pOBBPageTable' = t
                 /\ InsertAndReturn(call, BB, rec,
                      IF JustBecameOne(t[PageOf(addr)])
                      THEN <<register_decaf_flush_translation_cache(PAGE_LEVEL, PageOf(addr))>>
                      ELSE <<>>)
                 /\ UNCHANGED <<bEnableAllBlockBeginCallbacks,
                                enableAllBlockBeginCallbacksCount, pOBBTable>>
                 /\ UNCHANGED <<inited, condval, beVars, opVars, disp>>
       [] type \in {"OCB_CONST_NOT", "OCB_PAGE_NOT"} ->
            /\ InsertAndReturn(call, BB, rec, <<>>)
            /\ UNCHANGED <<inited, condval, bbVars, beVars, opVars, disp>>
       [] OTHER ->
            /\ bEnableAllBlockBeginCallbacks' = 1
            /\ enableAllBlockBeginCallbacksCount' = enableAllBlockBeginCallbacksCount + 1
            /\ InsertAndReturn(call, BB, rec,
                 IF JustBecameOne(enableAllBlockBeginCallbacksCount + 1)
                 THEN <<register_decaf_flush_translation_cache(ALL_CACHE, 0)>>
                 ELSE <<>>)
            /\ UNCHANGED <<pOBBTable, pOBBPageTable>>
            /\ UNCHANGED <<inited, condval, beVars, opVars, disp>>

decaf_register_optimized_block_begin_callback(cb_cond, addr, type) ==
  BlockBeginRegister(Call("decaf_register_optimized_block_begin_callback",
                          <<cb_cond, addr, type>>), cb_cond, addr, type)

\* the key counting_hashtable_remove is called with for a PAGE record
BlockBeginPageKey(cb_struct) == cb_struct.from

BlockBeginUnregister(call, handle) ==
  /\ CallAllowed
  /\ IF ~InList(callback_list_heads[BB], handle)
     THEN ReturnOnly(call, -1)
     ELSE LET cb_struct == cbs[handle] IN
          IF cb_struct.ocb_type = "OCB_PAGE"
          THEN IF FilterTableIsNull
               THEN ReturnOnly(call, NULL_POINTER_ERROR)
               ELSE LET key == BlockBeginPageKey(cb_struct)
                        t == counting_hashtable_remove(pOBBPageTable, key) IN
                    /\ pOBBPageTable' = t
                    /\ RemoveAndReturn(call, BB, handle, 0,
                         IF NowZero(t[key])
                         THEN <<register_decaf_flush_translation_cache(PAGE_LEVEL, cb_struct.from)>>
                         ELSE <<>>)
                    /\ UNCHANGED <<bEnableAllBlockBeginCallbacks,
                                   enableAllBlockBeginCallbacksCount, pOBBTable>>
                    /\ UNCHANGED <<inited, condval, beVars, opVars, disp>>
          ELSE LET c == enableAllBlockBeginCallbacksCount - 1 IN
               /\ enableAllBlockBeginCallbacksCount' = ResetUnderflow(c)
               /\ bEnableAllBlockBeginCallbacks' =
                    IF NowZero(c) THEN 0 ELSE bEnableAllBlockBeginCallbacks
               /\ RemoveAndReturn(call, BB, handle, 0,
                    IF NowZero(c)
                    THEN <<register_decaf_flush_translation_cache(ALL_CACHE, 0)>>
                    ELSE <<>>)
               /\ UNCHANGED <<pOBBTable, pOBBPageTable>>
               /\ UNCHANGED <<inited, condval, beVars, opVars, disp>>

decaf_unregister_optimized_block_begin_callback(handle) ==
  BlockBeginUnregister(Call("decaf_unregister_optimized_block_begin_callback",
                            <<handle>>), handle)

----------------------------------------------------------------------------
\* Block end.

\* the address is used as the key without masking
BlockEndFromKey_Unmasked(cb_struct) == cb_struct.from

\* gva_t from = cb_struct->from & TARGET_PAGE_MASK: the key
\* counting_hashtable_remove is called with for a from-only record
BlockEndFromKey(cb_struct) == PageOf(cb_struct.from)

\* the branches of a block-end registration with at least one specific address
BlockEndRegisterSpecific(call, cb_cond, from, to) ==
  LET rec == callback_struct(cb_cond, from, to, "OCB_ALL") IN
  IF FilterTableIsNull
  THEN ReturnOnly(call, DECAF_NULL_HANDLE)
  ELSE
  /\ UNCHANGED <<bEnableAllBlockEndCallbacks, enableAllBlockEndCallbacksCount>>
  /\ UNCHANGED <<inited, condval, bbVars, opVars, disp>>
  /\ IF to = INV_ADDR
     THEN LET t == counting_hashtable_add(pOBEFromPageTable, PageOf(from)) IN
          /\ pOBEFromPageTable' = t
          /\ InsertAndReturn(call, BE, rec,
               IF JustBecameOne(t[PageOf(from)])
               THEN <<register_decaf_flush_translation_cache(PAGE_LEVEL, from)>>
               ELSE <<>>)
          /\ UNCHANGED <<pOBEToPageTable, pOBEPageMap>>
     ELSE IF from = INV_ADDR
     THEN LET t == counting_hashtable_add(pOBEToPageTable, PageOf(to)) IN
          /\ pOBEToPageTable' = t
          /\ InsertAndReturn(call, BE, rec,
               IF JustBecameOne(t[PageOf(to)])
               THEN <<register_decaf_flush_translation_cache(ALL_CACHE, 0)>>
               ELSE <<>>)
          /\ UNCHANGED <<pOBEFromPageTable, pOBEPageMap>>
     ELSE LET m == counting_hashmap_add(pOBEPageMap, PageOf(from), PageOf(to)) IN
          /\ pOBEPageMap' = m
          /\ InsertAndReturn(call, BE, rec,
               IF JustBecameOne(m[PageOf(from)][PageOf(to)])
               THEN <<register_decaf_flush_translation_cache(PAGE_LEVEL, from)>>
               ELSE <<>>)
          /\ UNCHANGED <<pOBEFromPageTable, pOBEToPageTable>>

BlockEndRegister(call, cb_cond, from, to) ==
  /\ CallAllowed
  /\ nextHandle < MaxHandles
  /\ IF from = INV_ADDR /\ to = INV_ADDR
     THEN /\ enableAllBlockEndCallbacksCount' = enableAllBlockEndCallbacksCount + 1
          /\ bEnableAllBlockEndCallbacks' = 1
          /\ InsertAndReturn(call, BE, callback_struct(cb_cond, from, to, "OCB_ALL"),
               IF JustBecameOne(enableAllBlockEndCallbacksCount + 1)
               THEN <<register_decaf_flush_translation_cache(ALL_CACHE, 0)>>
               ELSE <<>>)
          /\ UNCHANGED <<pOBEFromPageTable, pOBEToPageTable, pOBEPageMap>>
          /\ UNCHANGED <<inited, condval, bbVars, opVars, disp>>
     ELSE BlockEndRegisterSpecific(call, cb_cond, from, to)

decaf_register_optimized_block_end_callback(cb_cond, from, to) ==
  BlockEndRegister(Call("decaf_register_optimized_block_end_callback",
                        <<cb_cond, from, to>>), cb_cond, from, to)

\* with both addresses INV_ADDR the struct is neither inserted nor freed
decaf_register_match_block_end_callback(cb_cond, from, to) ==
  LET call == Call("decaf_register_match_block_end_callback", <<cb_cond, from, to>>) IN
  /\ CallAllowed
  /\ nextHandle < MaxHandles
  /\ IF from = INV_ADDR /\ to = INV_ADDR
     THEN ReturnOnly(call, DECAF_NULL_HANDLE)
     ELSE BlockEndRegisterSpecific(call, cb_cond, from, to)

BlockEndUnregister(call, handle) ==
  /\ CallAllowed
  /\ IF ~InList(callback_list_heads[BE], handle)
     THEN ReturnOnly(call, -1)
     ELSE LET cb_struct == cbs[handle] IN
          /\ UNCHANGED <<inited, condval, bbVars, opVars, disp>>
          /\ IF cb_struct.from = INV_ADDR /\ cb_struct.to = INV_ADDR
             THEN LET c == enableAllBlockEndCallbacksCount - 1 IN
                  /\ enableAllBlockEndCallbacksCount' = ResetUnderflow(c)
                  /\ bEnableAllBlockEndCallbacks' =
                       IF NowZero(c) THEN 0 ELSE bEnableAllBlockEndCallbacks
                  /\ RemoveAndReturn(call, BE, handle, 0,
                       IF NowZero(c)
                       THEN <<register_decaf_flush_translation_cache(ALL_CACHE, 0)>>
                       ELSE <<>>)
                  /\ UNCHANGED <<pOBEFromPageTable, pOBEToPageTable, pOBEPageMap>>
             ELSE IF cb_struct.to = INV_ADDR
             THEN LET from == BlockEndFromKey(cb_struct)
                      t == counting_hashtable_remove(pOBEFromPageTable, from) IN
                  /\ pOBEFromPageTable' = t
                  /\ RemoveAndReturn(call, BE, handle, 0,
                       IF NowZero(t[from])
                       THEN <<register_decaf_flush_translation_cache(PAGE_LEVEL, from)>>
                       ELSE <<>>)
                  /\ UNCHANGED <<bEnableAllBlockEndCallbacks,
                                 enableAllBlockEndCallbacksCount,
                                 pOBEToPageTable, pOBEPageMap>>
             ELSE IF cb_struct.from = INV_ADDR
             THEN LET to == PageOf(cb_struct.to)
                      t == counting_hashtable_remove(pOBEToPageTable, to) IN
                  /\ pOBEToPageTable' = t
                  /\ RemoveAndReturn(call, BE, handle, 0,
                       IF NowZero(t[to])
                       THEN <<register_decaf_flush_translation_cache(ALL_CACHE, 0)>>
                       ELSE <<>>)
                  /\ UNCHANGED <<bEnableAllBlockEndCallbacks,
                                 enableAllBlockEndCallbacksCount,
                                 pOBEFromPageTable, pOBEPageMap>>
             ELSE LET m == counting_hashmap_remove(pOBEPageMap,
                             PageOf(cb_struct.from), PageOf(cb_struct.to)) IN
                  /\ pOBEPageMap' = m
                  /\ RemoveAndReturn(call, BE, handle, 0,
                       IF NowZero(m[PageOf(cb_struct.from)][PageOf(cb_struct.to)])
                       THEN <<register_decaf_flush_translation_cache(
                                PAGE_LEVEL, PageOf(cb_struct.from))>>
                       ELSE <<>>)
                  /\ UNCHANGED <<bEnableAllBlockEndCallbacks,
                                 enableAllBlockEndCallbacksCount,
                                 pOBEFromPageTable, pOBEToPageTable>>

decaf_unregister_optimized_block_end_callback(handle) ==
  BlockEndUnregister(Call("decaf_unregister_optimized_block_end_callback",
                          <<handle>>), handle)

----------------------------------------------------------------------------
\* Opcode ranges.

\* two-byte opcodes 0x0fxx are stored as 0x1xx
NormalizeOpcode(op) == IF op >= 3840 THEN 256 + (op % 256) ELSE op

\* the comparison with its operands swapped
OpcodeRangeRejected_Swapped(start_opcode, end_opcode) == start_opcode < end_opcode

\* the argument check of decaf_register_opcode_range_callback
OpcodeRangeRejected(start_opcode, end_opcode) == end_opcode < start_opcode

decaf_register_opcode_range_callback(condition, start_opcode, end_opcode) ==
  LET call == Call("decaf_register_opcode_range_callback",
                   <<condition, start_opcode, end_opcode>>)
      start == NormalizeOpcode(start_opcode)
      end == NormalizeOpcode(end_opcode)
  IN
  /\ CallAllowed
  /\ nextHandle < MaxHandles
  /\ IF OpcodeRangeRejected(start_opcode, end_opcode)
     THEN ReturnOnly(call, DECAF_NULL_HANDLE)
     ELSE /\ instructionCallbacks' =
               [i \in OpSlots |-> IF start <= i /\ i <= end
                                  THEN g_malloc ELSE instructionCallbacks[i]]
          /\ oob' = (oob \/ (start <= end /\ end > 511))
          /\ InsertAndReturn(call, OPC, callback_struct(condition, start, end, "OCB_ALL"),
               <<register_decaf_flush_translation_cache(ALL_CACHE, 0)>>)
          /\ UNCHANGED <<inited, condval, bbVars, beVars, opdisp, disp>>

\* only the slots that still reference the record are reset
OpcodeRangeCleared_OwnedOnly(handle, cb_struct, i) ==
  cb_struct.from <= i /\ i <= cb_struct.to /\ instructionCallbacks[i] = handle

\* the slots decaf_unregister_opcode_range_callback resets for a record
OpcodeRangeCleared(handle, cb_struct, i) == cb_struct.from <= i /\ i <= cb_struct.to

decaf_unregister_opcode_range_callback(handle) ==
  LET call == Call("decaf_unregister_opcode_range_callback", <<handle>>)
      cb_struct == cbs[handle]
  IN
  /\ CallAllowed
  /\ IF ~InList(callback_list_heads[OPC], handle)
     THEN ReturnOnly(call, -1)
     ELSE IF cb_struct.from > 511 \/ cb_struct.to > 511 \/ cb_struct.from > cb_struct.to
     THEN ReturnOnly(call, -1)
     ELSE /\ instructionCallbacks' =
               [i \in OpSlots |-> IF OpcodeRangeCleared(handle, cb_struct, i)
                                  THEN NULL ELSE instructionCallbacks[i]]
          /\ RemoveAndReturn(call, OPC, handle, 0, <<>>)
          /\ UNCHANGED <<inited, condval, bbVars, beVars, oob, opdisp, disp>>

\* the helpers that store cb_struct in params.cbhandle before they call the
\* handler: all but decaf_invoke_tlb_exec_callback and
\* helper_decaf_invoke_opcode_range_callback
AssignsCbhandle(kind) == kind \notin {TLB, OPC}

\* the values params.cbhandle can hold when the handler of cb_struct is
\* called: where it is never assigned, params is an automatic variable and the
\* field is whatever the stack held
Cbhandles(kind, cb_struct) ==
  IF AssignsCbhandle(kind) THEN {cb_struct} ELSE Handles \cup {NULL}

\* the payloads the handler can see in a dispatch that ends as d
OpcodePayloads(d) ==
  IF d.outcome = "invoked"
  THEN {[d EXCEPT !.cbhandle = cbhandle] : cbhandle \in Cbhandles(OPC, d.cb_struct)}
  ELSE {d}

\* temp: the class of the transition (eip, next_eip); an address is in the
\* kernel when it is above kernel_base
TransitionClass(eip, next_eip) ==
  LET from_kernel == Above(eip, kernel_base)
      to_kernel == Above(next_eip, kernel_base)
  IN  IF ~from_kernel /\ ~to_kernel THEN DECAF_USER_TO_USER_ONLY
      ELSE IF ~from_kernel /\ to_kernel THEN DECAF_USER_TO_KERNEL_ONLY
      ELSE IF from_kernel /\ ~to_kernel THEN DECAF_KERNEL_TO_USER_ONLY
      ELSE DECAF_KERNEL_TO_KERNEL_ONLY

\* "Condition violated": temp & (*(cb_struct->enabled) == 0), where == binds
\* tighter than &
ConditionViolated(temp, enabled) ==
  BitAnd(temp, IF enabled = 0 THEN 1 ELSE 0) # 0

\* cb_struct->enabled is read through without a NULL test, and a slot may
\* still hold a struct that was freed: either read is undefined, the helper
\* may fault, call the handler or return
helper_decaf_invoke_opcode_range_callback(cs, eip, next_eip, op) ==
  LET cb_struct == instructionCallbacks[op] IN
  /\ disp.pc = "idle"
  /\ IF cb_struct = NULL \/ cs = NULL
     THEN opdisp' = OpcodeDispatched(cs, eip, next_eip, op, cb_struct, NoCond, 0,
                                     "returned")
     ELSE IF \/ ~InList(callback_list_heads[OPC], cb_struct)
             \/ cbs[cb_struct].enabled = NoCond
     THEN \E outcome \in {"fault", "invoked", "skipped"} :
            opdisp' \in OpcodePayloads(
                          OpcodeDispatched(cs, eip, next_eip, op, cb_struct, NoCond,
                                           0, outcome))
     ELSE LET enabled == condval[cbs[cb_struct].enabled] IN
          opdisp' \in OpcodePayloads(
                        OpcodeDispatched(cs, eip, next_eip, op, cb_struct,
                          cbs[cb_struct].enabled, enabled,
                          IF /\ enabled # DECAF_ALL
                             /\ ConditionViolated(TransitionClass(eip, next_eip),
                                                  enabled)
                          THEN "skipped" ELSE "invoked"))
  /\ UNCHANGED <<inited, regVars, condval, bbVars, beVars, instructionCallbacks,
                 oob, hist, disp>>

----------------------------------------------------------------------------
\* The generic entry points.

\* from and to of a struct registered here are never assigned: junk is what
\* the allocation happened to hold
\* the tlb-exec kind flushes like the others
FlushesTranslationCache_EveryKind(cb_type) == TRUE

\* if (cb_type == DECAF_TLB_EXEC_CB) goto insert_callback / goto done: the
\* kinds whose first and last record flush the translation cache
FlushesTranslationCache(cb_type) == cb_type # TLB

decaf_register_callback(cb_type, cb_cond, junk) ==
  LET call == Call("decaf_register_callback", <<cb_type, cb_cond>>) IN
  IF cb_type = BB
  THEN BlockBeginRegister(call, cb_cond, INV_ADDR, "OCB_ALL")
  ELSE IF cb_type = BE
  THEN BlockEndRegister(call, cb_cond, INV_ADDR, INV_ADDR)
  ELSE /\ CallAllowed
       /\ nextHandle < MaxHandles
       /\ InsertAndReturn(call, cb_type,
            callback_struct(cb_cond, junk[1], junk[2], "OCB_ALL"),
            IF FlushesTranslationCache(cb_type)
               /\ QLIST_EMPTY(callback_list_heads[cb_type])
            THEN <<register_decaf_flush_translation_cache(ALL_CACHE, 0)>>
            ELSE <<>>)
       /\ UNCHANGED <<inited, condval, bbVars, beVars, opVars, disp>>

decaf_unregister_callback(cb_type, handle) ==
  LET call == Call("decaf_unregister_callback", <<cb_type, handle>>) IN
  IF cb_type = BB
  THEN BlockBeginUnregister(call, handle)
  ELSE IF cb_type = BE
  THEN BlockEndUnregister(call, handle)
  ELSE /\ CallAllowed
       /\ IF ~InList(callback_list_heads[cb_type], handle)
          THEN ReturnOnly(call, -1)
          ELSE /\ RemoveAndReturn(call, cb_type, handle, 0,
                    IF FlushesTranslationCache(cb_type)
                       /\ QLIST_EMPTY(QLIST_REMOVE(callback_list_heads[cb_type], handle))
                    THEN <<register_decaf_flush_translation_cache(ALL_CACHE, 0)>>
                    ELSE <<>>)
               /\ UNCHANGED <<inited, condval, bbVars, beVars, opVars, disp>>

\* the plugin stores v into one of its flags
SetCond(c, v) ==
  /\ CallAllowed
  /\ condval[c] # v
  /\ condval' = [condval EXCEPT ![c] = v]
  /\ UNCHANGED <<inited, regVars, bbVars, beVars, opVars, hist, disp>>

----------------------------------------------------------------------------
\* Dispatch helpers: QLIST_FOREACH_SAFE over callback_list_heads[kind].

\* the pointer tested in place of the flag it points to
Enabled_PointerTested(cb_struct) ==
  cb_struct.enabled = NoCond \/ cb_struct.enabled # NoCond

\* !cb_struct->enabled || *cb_struct->enabled
Enabled(cb_struct) == cb_struct.enabled = NoCond \/ condval[cb_struct.enabled] # 0

\* the start address itself is compared
BlockBeginInvokes_ExactAddress(cb_struct, pc) ==
  IF cb_struct.ocb_type = "OCB_PAGE"
  THEN cb_struct.from = pc
  ELSE TRUE

\* the switch on ocb_type of helper_decaf_invoke_block_begin_callback
BlockBeginInvokes(cb_struct, pc) ==
  IF cb_struct.ocb_type = "OCB_PAGE"
  THEN PageOf(cb_struct.from) = PageOf(pc)
  ELSE TRUE

\* the to page decides alone
BlockEndInvokes_ToOnly(cb_struct, cur_pc, next_pc) ==
  cb_struct.to = INV_ADDR \/ PageOf(cb_struct.to) = PageOf(next_pc)

\* the from / to tests of helper_decaf_invoke_block_end_callback
BlockEndInvokes(cb_struct, cur_pc, next_pc) ==
  IF cb_struct.to = INV_ADDR
  THEN TRUE
  ELSE IF PageOf(cb_struct.to) = PageOf(next_pc)
  THEN IF cb_struct.from = INV_ADDR
       THEN TRUE
       ELSE PageOf(cb_struct.from) = PageOf(cur_pc)
  ELSE FALSE

\* the helper of this kind calls cb_struct->callback
Invokes(kind, cb_struct, cur_pc, next_pc) ==
  /\ Enabled(cb_struct)
  /\ CASE kind = BB -> BlockBeginInvokes(cb_struct, cur_pc)
       [] kind = BE -> BlockEndInvokes(cb_struct, cur_pc, next_pc)
       [] OTHER -> TRUE

\* helpers that return at once on a NULL cs (or tb, or a zero vaddr)
CheckedKinds == {BB, BE, "DECAF_INSN_BEGIN_CB", "DECAF_INSN_END_CB", TLB}

\* entry of the helper of kind; valid: its pointer arguments are non-NULL;
\* cur_pc is tb->pc (block begin) or from (block end), next_pc the address
\* block end reads from the CPU state
DispatchStart(kind, valid, cur_pc, next_pc) ==
  LET l == callback_list_heads[kind] IN
  /\ disp.pc = "idle"
  /\ disp' =
       IF kind \in CheckedKinds /\ ~valid
       THEN [Idle(kind, {}) EXCEPT
               !.pc = "done",
               !.prevLate = IF kind = disp.kind THEN disp.prevLate ELSE {}]
       ELSE [Idle(kind, IF kind = disp.kind THEN disp.prevSkipped ELSE {}) EXCEPT
               !.prevLate = IF kind = disp.kind THEN disp.prevLate ELSE {},
               !.pc = "loop", !.walked = TRUE, !.cb_struct = QLIST_FIRST(l),
               !.cur_pc = cur_pc, !.next_pc = next_pc, !.snap = l,
               !.expect = {h \in Handles :
                             InList(l, h) /\ Invokes(kind, cbs[h], cur_pc, next_pc)}]
  /\ UNCHANGED <<inited, regVars, condval, bbVars, beVars, opVars, hist>>

\* QLIST_FOREACH: the link is read from cb_struct after the body
ForeachAdvance_Unsafe(l, cb_struct, cb_next) == QLIST_NEXT(l, cb_struct)

\* the pointer the loop continues with after the body: the next_var saved
\* before the body ran
ForeachSafeAdvance(l, cb_struct, cb_next) == cb_next

\* one iteration up to the call of the handler, or the end of the loop
DispatchStep ==
  LET l == callback_list_heads[disp.kind]
      cb_struct == disp.cb_struct
      cb_next == QLIST_NEXT(l, cb_struct)
  IN
  /\ disp.pc = "loop"
  /\ \/ cb_struct = NULL
     \/ InList(l, cb_struct)
  /\ IF cb_struct = NULL
     THEN disp' = [disp EXCEPT !.pc = "done"]
     ELSE IF Invokes(disp.kind, cbs[cb_struct], disp.cur_pc, disp.next_pc)
     THEN \E cbhandle \in Cbhandles(disp.kind, cb_struct) :
            disp' = [disp EXCEPT !.pc = "handler", !.cb_next = cb_next,
                                 !.invoked = Append(@, cb_struct),
                                 !.cbhandle = cbhandle]
     ELSE disp' = [disp EXCEPT !.cb_next = cb_next,
                     !.cb_struct = ForeachSafeAdvance(l, cb_struct, cb_next),
                     !.skipped = IF Enabled(cbs[cb_struct])
                                 THEN @ ELSE @ \cup {cb_struct}]
  /\ UNCHANGED <<inited, regVars, condval, bbVars, beVars, opVars, hist>>

\* an iteration whose cb_struct has been freed: its link and its fields are
\* read from freed memory, so the loop may call the stale handler or not and
\* may continue at any record or stop
DispatchStepFreed ==
  LET l == callback_list_heads[disp.kind] IN
  /\ disp.pc = "loop"
  /\ disp.cb_struct # NULL
  /\ ~InList(l, disp.cb_struct)
  /\ \E cb_next \in {NULL} \cup {h \in Handles : InList(l, h)}, called \in BOOLEAN,
        cbhandle \in Cbhandles(disp.kind, disp.cb_struct) :
       disp' =
         IF called
         THEN [disp EXCEPT !.uaf = TRUE, !.pc = "handler", !.cb_next = cb_next,
                           !.invoked = Append(@, disp.cb_struct),
                           !.cbhandle = cbhandle]
         ELSE [disp EXCEPT !.uaf = TRUE, !.cb_next = cb_next, !.cb_struct = cb_next]
  /\ UNCHANGED <<inited, regVars, condval, bbVars, beVars, opVars, hist>>

\* the handler returns and the loop advances
HandlerReturn ==
  /\ disp.pc = "handler"
  /\ disp' = [disp EXCEPT !.pc = "loop", !.cbhandle = NULL,
                !.cb_struct = ForeachSafeAdvance(callback_list_heads[disp.kind],
                                                 disp.cb_struct, disp.cb_next)]
  /\ UNCHANGED <<inited, regVars, condval, bbVars, beVars, opVars, hist>>

\* the helper returns
DispatchReturn ==
  /\ disp.pc = "done"
  /\ disp' = [Idle(disp.kind, disp.skipped) EXCEPT
                !.prevLate =
                  IF disp.walked
                  THEN {h \in Handles :
                          /\ InList(callback_list_heads[disp.kind], h)
                          /\ ~InList(disp.snap, h)}
                  ELSE disp.prevLate]
  /\ UNCHANGED <<inited, regVars, condval, bbVars, beVars, opVars, hist>>

----------------------------------------------------------------------------
\* Inputs of the specifications.

\* handles passed to the unregistration functions: the null handle, which is
\* never found, and every handle a filter registration can have returned
AnyHandle == 0 .. MaxFilterHandles

\* addresses passed to the filter registrations: the first addresses and the
\* wildcard
FilterAddrs == {0, 1, 2, INV_ADDR}

\* (addr, type) of a block-begin registration: addr is only stored unless the
\* type is OCB_PAGE
BlockBeginInputs ==
  {<<addr, "OCB_PAGE">> : addr \in FilterAddrs}
    \cup {<<INV_ADDR, type>> : type \in OCBTypes \ {"OCB_PAGE"}}

\* Block-begin and block-end registration and unregistration, without
\* conditions.  The generic unregistration is given the live handles of the
\* kind; the two it delegates to are given any handle.
NextFilter ==
  \/ decaf_callback_init
  \/ /\ nextHandle < MaxFilterHandles
     /\ \/ \E in \in BlockBeginInputs :
             decaf_register_optimized_block_begin_callback(NoCond, in[1], in[2])
        \/ \E from \in FilterAddrs, to \in FilterAddrs :
             decaf_register_optimized_block_end_callback(NoCond, from, to)
        \/ \E from \in {1, INV_ADDR}, to \in {2, INV_ADDR} :
             decaf_register_match_block_end_callback(NoCond, from, to)
        \/ \E cb_type \in {BB, BE} : decaf_register_callback(cb_type, NoCond, <<0, 0>>)
  \/ \E handle \in AnyHandle : decaf_unregister_optimized_block_begin_callback(handle)
  \/ \E handle \in AnyHandle : decaf_unregister_optimized_block_end_callback(handle)
  \/ \E cb_type \in {BB, BE}, handle \in Handles :
       /\ InList(callback_list_heads[cb_type], handle)
       /\ decaf_unregister_callback(cb_type, handle)

SpecFilter == Init /\ [][NextFilter]_vars

\* start_opcode / end_opcode samples: three one-byte opcodes and the two-byte
\* opcode 0x0f18
OpcodeInputs == {16, 24, 32, 3864}

\* Opcode-range registration and unregistration.
NextOpcode ==
  \/ decaf_callback_init
  \/ /\ nextHandle < MaxFilterHandles
     /\ \E start_opcode \in OpcodeInputs, end_opcode \in OpcodeInputs :
          decaf_register_opcode_range_callback(NoCond, start_opcode, end_opcode)
  \/ \E handle \in Handles : decaf_unregister_opcode_range_callback(handle)

SpecOpcode == Init /\ [][NextOpcode]_vars

\* (addr, type) of the block-begin records under dispatch: the helper tells
\* OCB_PAGE from every other type
DispatchBlockBeginInputs ==
  {<<1, "OCB_PAGE">>, <<2, "OCB_PAGE">>, <<INV_ADDR, "OCB_ALL">>,
   <<INV_ADDR, "OCB_PAGE_NOT">>}

\* pc of the block (and of the next block) a block helper is called for
DispatchAddrs == {0, 2, 3}

\* Registration of a record of the kind under dispatch, from outside the
\* dispatch helpers.  A block-end record names address 1, address 2 or the
\* wildcard.
DispatchRegister ==
  /\ disp.pc = "idle"
  /\ CASE disp.kind = BB ->
            /\ nextHandle < MaxFilterHandles
            /\ \E cb_cond \in Conds, in \in DispatchBlockBeginInputs :
                 decaf_register_optimized_block_begin_callback(cb_cond, in[1], in[2])
       [] disp.kind = BE ->
            /\ nextHandle < MaxFilterHandles
            /\ \E cb_cond \in Conds, from \in {1, INV_ADDR}, to \in {2, INV_ADDR} :
                 decaf_register_optimized_block_end_callback(cb_cond, from, to)
       [] OTHER ->
            \E cb_cond \in Conds : decaf_register_callback(disp.kind, cb_cond, <<0, 0>>)

\* Unregistration of a live record of the kind under dispatch, from outside the
\* dispatch helpers
DispatchUnregister ==
  /\ disp.pc = "idle"
  /\ \E handle \in Handles :
       /\ InList(callback_list_heads[disp.kind], handle)
       /\ decaf_unregister_callback(disp.kind, handle)

DispatchSetCond ==
  /\ disp.pc = "idle"
  /\ \E c \in CondIds, v \in {0, 1} : SetCond(c, v)

DispatchEnter ==
  \E valid \in (IF disp.kind \in CheckedKinds THEN BOOLEAN ELSE {TRUE}),
     cur_pc \in (IF disp.kind \in {BB, BE} THEN DispatchAddrs ELSE {0}),
     next_pc \in (IF disp.kind = BE THEN DispatchAddrs ELSE {0}) :
    DispatchStart(disp.kind, valid, cur_pc, next_pc)

\* the handler being run unregisters its own record
HandlerUnregistersItself ==
  /\ disp.pc = "handler"
  /\ decaf_unregister_callback(disp.kind, disp.cb_struct)

\* the handler being run unregisters a live record of the kind under dispatch
HandlerUnregisters ==
  /\ disp.pc = "handler"
  /\ \E handle \in Handles :
       /\ InList(callback_list_heads[disp.kind], handle)
       /\ decaf_unregister_callback(disp.kind, handle)

\* the handler being run registers a record of the kind under dispatch
HandlerRegisters ==
  /\ disp.pc = "handler"
  /\ \E cb_cond \in Conds : decaf_register_callback(disp.kind, cb_cond, <<0, 0>>)

\* Dispatch with handlers that leave the registries alone.
NextCond ==
  \/ decaf_callback_init
  \/ DispatchRegister
  \/ DispatchUnregister
  \/ DispatchSetCond
  \/ DispatchEnter
  \/ DispatchStep
  \/ HandlerReturn
  \/ DispatchReturn

SpecCond == InitDispatch /\ [][NextCond]_vars

\* Dispatch with handlers that may register records of the kind.
NextReenter ==
  \/ decaf_callback_init
  \/ DispatchRegister
  \/ DispatchEnter
  \/ DispatchStep
  \/ HandlerRegisters
  \/ HandlerReturn
  \/ DispatchReturn

SpecReenter == InitDispatch /\ [][NextReenter]_vars

\* Dispatch with handlers that may unregister their own record.
NextSelf ==
  \/ NextCond
  \/ HandlerUnregistersItself

SpecSelf == InitDispatch /\ [][NextSelf]_vars

\* Dispatch with handlers that may unregister any record of the kind.
NextMutate ==
  \/ NextCond
  \/ HandlerUnregisters
  \/ DispatchStepFreed

SpecMutate == InitDispatch /\ [][NextMutate]_vars

\* Registration and unregistration through the generic entry points and the
\* entry points they do not delegate to, with handles the registry of the kind
\* does not hold.  The generic code path is the same for every kind but block
\* begin, block end and tlb exec: instruction begin stands for the others.
RegistryKinds == {BB, BE, OPC, TLB, "DECAF_INSN_BEGIN_CB"}

\* decaf_callback_init runs before the first record is registered (QLIST_INIT
\* would drop the records)
NextRegistry ==
  \/ nextHandle = 0 /\ decaf_callback_init
  \/ /\ nextHandle < MaxFilterHandles
     /\ \/ \E cb_type \in RegistryKinds : decaf_register_callback(cb_type, NoCond, <<0, 0>>)
        \/ decaf_register_optimized_block_begin_callback(NoCond, INV_ADDR, "OCB_PAGE_NOT")
        \/ decaf_register_opcode_range_callback(NoCond, 16, 24)
  \/ \E cb_type \in RegistryKinds, handle \in AnyHandle :
       decaf_unregister_callback(cb_type, handle)
  \/ \E handle \in AnyHandle : decaf_unregister_optimized_block_begin_callback(handle)
  \/ \E handle \in AnyHandle : decaf_unregister_opcode_range_callback(handle)

SpecRegistry == Init /\ [][NextRegistry]_vars

\* (start_opcode, end_opcode): a one-byte range, a range from a one-byte to a
\* two-byte opcode, two-byte opcodes whose normalized values are reversed, and
\* a range that ends past the last one-byte opcode
WideOpcodeInputs == {<<16, 24>>, <<24, 3864>>, <<3968, 4096>>, <<16, 512>>}

\* Opcode-range registration with any start_opcode <= end_opcode, and the
\* generic entry points on the opcode-range registry.
NextOpcodeWide ==
  \/ decaf_callback_init
  \/ /\ nextHandle < MaxFilterHandles
     /\ \/ \E in \in WideOpcodeInputs :
             decaf_register_opcode_range_callback(NoCond, in[1], in[2])
        \/ decaf_register_callback(OPC, NoCond, <<0, 0>>)
  \/ \E handle \in AnyHandle : decaf_unregister_opcode_range_callback(handle)
  \/ \E handle \in AnyHandle : decaf_unregister_callback(OPC, handle)

SpecOpcodeWide == Init /\ [][NextOpcodeWide]_vars

\* values a plugin stores in the condition of an opcode-range registration
OpcodeConditionValues ==
  {0, DECAF_USER_TO_USER_ONLY,
   DECAF_USER_TO_KERNEL_ONLY + DECAF_KERNEL_TO_KERNEL_ONLY, DECAF_ALL}
DispatchRanges == {<<16, 24>>}
DispatchOpcodes == {16, 40}
DispatchEips == {kernel_base, Word32(32768, 1)}
CPUStates == {NULL, 1}

\* Opcode-range registrations with and without a condition, and the dispatch
\* of opcodes inside and outside their ranges.
NextOpcodeDispatch ==
  \/ decaf_callback_init
  \/ /\ nextHandle < MaxFilterHandles
     /\ \E condition \in Conds, in \in DispatchRanges :
          decaf_register_opcode_range_callback(condition, in[1], in[2])
  \/ \E handle \in Handles : decaf_unregister_opcode_range_callback(handle)
  \/ \E c \in CondIds, v \in OpcodeConditionValues : SetCond(c, v)
  \/ \E cs \in CPUStates, eip \in DispatchEips, next_eip \in DispatchEips,
        op \in DispatchOpcodes :
       helper_decaf_invoke_opcode_range_callback(cs, eip, next_eip, op)

SpecOpcodeDispatch == Init /\ [][NextOpcodeDispatch]_vars

\* Registration through the generic entry point, of a block-begin record of a
\* reserved class besides, and generic unregistration of live records.
NextRoundTrip ==
  \/ nextHandle = 0 /\ decaf_callback_init
  \/ \E cb_type \in RegistryKinds : decaf_register_callback(cb_type, NoCond, <<0, 0>>)
  \/ decaf_register_optimized_block_begin_callback(NoCond, INV_ADDR, "OCB_PAGE_NOT")
  \/ \E cb_type \in RegistryKinds, handle \in Handles :
       /\ InList(callback_list_heads[cb_type], handle)
       /\ decaf_unregister_callback(cb_type, handle)

SpecRoundTrip == Init /\ [][NextRoundTrip]_vars


----------------------------------------------------------------------------
\* Vocabulary of the properties.

BlockBeginRegisterOps == {"decaf_register_optimized_block_begin_callback"}
BlockBeginUnregisterOps == {"decaf_unregister_optimized_block_begin_callback"}
BlockEndRegisterOps == {"decaf_register_optimized_block_end_callback",
                        "decaf_register_match_block_end_callback"}
BlockEndUnregisterOps == {"decaf_unregister_optimized_block_end_callback"}
GenericOps == {"decaf_register_callback", "decaf_unregister_callback"}
FilterOps == BlockBeginRegisterOps \cup BlockBeginUnregisterOps
               \cup BlockEndRegisterOps \cup BlockEndUnregisterOps \cup GenericOps

\* the invalidations fl reach the compiled code of the page holding address a
FlushCovers(fl, a) ==
  \E i \in DOMAIN fl :
    \/ fl[i][1] = ALL_CACHE
    \/ fl[i][1] = PAGE_LEVEL /\ PageOf(fl[i][2]) = PageOf(a)

OnlyAllFlush == <<register_decaf_flush_translation_cache(ALL_CACHE, 0)>>

BlockBeginChanged ==
  {pc \in Addr : (pc \in hist.bbBefore) # decaf_is_block_begin_callback_needed(pc)}
BlockEndChanged ==
  {ft \in Addr \X Addr :
     (ft \in hist.beBefore) # decaf_is_block_end_callback_needed(ft[1], ft[2])}

\* the last call registered a block-begin record of type OCB_ALL
RegisteredGlobalBlockBegin ==
  /\ hist.op \in BlockBeginRegisterOps \cup {"decaf_register_callback"}
  /\ hist.ret # DECAF_NULL_HANDLE
  /\ InList(callback_list_heads[BB], hist.ret)
  /\ hist.rec.ocb_type = "OCB_ALL"

\* the last call unregistered a block-begin record
UnregisteredBlockBegin ==
  /\ hist.op \in BlockBeginUnregisterOps
  /\ hist.ret = 0

\* the last call registered a block-begin record of type OCB_PAGE
RegisteredPageBlockBegin ==
  /\ hist.op \in BlockBeginRegisterOps
  /\ hist.ret # DECAF_NULL_HANDLE
  /\ hist.rec.ocb_type = "OCB_PAGE"

\* live OCB_PAGE block-begin records on the page of address a
LivePageRecords(a) ==
  {h \in Handles : /\ InList(callback_list_heads[BB], h)
                   /\ cbs[h].ocb_type = "OCB_PAGE"
                   /\ PageOf(cbs[h].from) = PageOf(a)}

----------------------------------------------------------------------------
\* C1: whenever a block-begin or block-end registration or unregistration
\* changes the answer of is_block_begin_needed(pc) for some pc, or of
\* is_block_end_needed(from, to) for some (from, to), that call has issued an
\* invalidation of scope ALL or of scope PAGE on the page of pc (of from).
C1_InvalidationOnChange ==
  hist.op \in FilterOps =>
    /\ \A pc \in BlockBeginChanged : FlushCovers(hist.flushes, pc)
    /\ \A ft \in BlockEndChanged : FlushCovers(hist.flushes, ft[1])

\* a (from, to)-pair record was unregistered, the answer changed for its pair,
\* and the call issued a PAGE invalidation
C1_Witness ==
  /\ hist.op \in BlockEndUnregisterOps
  /\ hist.rec.from # INV_ADDR /\ hist.rec.to # INV_ADDR
  /\ <<hist.rec.from, hist.rec.to>> \in BlockEndChanged
  /\ hist.flushes = <<register_decaf_flush_translation_cache(
                        PAGE_LEVEL, PageOf(hist.rec.from))>>

\* C2: from an initialized engine with no block-begin registration,
\* registering a global block-begin callback issues exactly one ALL
\* invalidation and makes is_block_begin_needed true for every address;
\* unregistering it issues exactly one more ALL invalidation and makes
\* is_block_begin_needed false for every address.
C2_GlobalBlockBeginScenario ==
  [][ /\ ( /\ inited /\ QLIST_EMPTY(callback_list_heads[BB])
           /\ hist' # hist /\ RegisteredGlobalBlockBegin' )
         => /\ hist'.flushes = OnlyAllFlush
            /\ \A addr \in Addr : decaf_is_block_begin_callback_needed(addr)'
      /\ ( /\ inited /\ RegisteredGlobalBlockBegin
           /\ callback_list_heads[BB] = <<hist.ret>>
           /\ hist' # hist /\ UnregisteredBlockBegin' /\ hist'.args = <<hist.ret>> )
         => /\ hist'.flushes = OnlyAllFlush
            /\ \A addr \in Addr : ~decaf_is_block_begin_callback_needed(addr)'
    ]_vars

\* C3: with two OCB_PAGE block-begin records on one page, the second
\* registration issues no invalidation, unregistering one of them issues none
\* and leaves is_block_begin_needed true for the page; the first registration
\* and the last unregistration for the page each issue one PAGE invalidation.
C3_PageCounting ==
  /\ RegisteredPageBlockBegin =>
       hist.flushes =
         IF LivePageRecords(hist.rec.from) = {hist.ret}
         THEN <<register_decaf_flush_translation_cache(PAGE_LEVEL, PageOf(hist.rec.from))>>
         ELSE <<>>
  /\ (UnregisteredBlockBegin /\ hist.rec.ocb_type = "OCB_PAGE") =>
       IF LivePageRecords(hist.rec.from) # {}
       THEN /\ hist.flushes = <<>>
            /\ decaf_is_block_begin_callback_needed(hist.rec.from)
       ELSE /\ Len(hist.flushes) = 1
            /\ hist.flushes[1][1] = PAGE_LEVEL
            /\ PageOf(hist.flushes[1][2]) = PageOf(hist.rec.from)

\* number of times handle h was invoked by the dispatch
Times(h) == Cardinality({i \in DOMAIN disp.invoked : disp.invoked[i] = h})

\* a dispatch helper has walked its registry and is about to return
WalkDone == disp.pc = "done" /\ disp.walked

LiveIn(kind) == {h \in Handles : InList(callback_list_heads[kind], h)}

\* C4: at block-end dispatch an enabled record (from = A, to = wildcard) is
\* invoked iff the originating address of the transition is on A's page.
C4_FromOnlyMatching ==
  (WalkDone /\ disp.kind = BE) =>
    \A h \in LiveIn(BE) :
      (cbs[h].from # INV_ADDR /\ cbs[h].to = INV_ADDR /\ Enabled(cbs[h])) =>
        IF PageOf(cbs[h].from) = PageOf(disp.cur_pc)
        THEN Times(h) = 1 ELSE Times(h) = 0

\* C5: at block-end dispatch an enabled record (from = wildcard, to = B) is
\* invoked iff the next address is on B's page, and an enabled record
\* (from = A, to = B) iff moreover the originating address is on A's page.
C5_ToAndPairMatching ==
  (WalkDone /\ disp.kind = BE) =>
    \A h \in LiveIn(BE) :
      (cbs[h].to # INV_ADDR /\ Enabled(cbs[h])) =>
        IF /\ PageOf(cbs[h].to) = PageOf(disp.next_pc)
           /\ cbs[h].from # INV_ADDR => PageOf(cbs[h].from) = PageOf(disp.cur_pc)
        THEN Times(h) = 1 ELSE Times(h) = 0

\* a transition into B's page from outside A's page: the (wildcard, B) record
\* was invoked and the (A, B) record was not
C5_Witness ==
  /\ WalkDone /\ disp.kind = BE
  /\ \E h1 \in LiveIn(BE), h2 \in LiveIn(BE) :
       /\ cbs[h1].from = INV_ADDR /\ cbs[h1].to # INV_ADDR
       /\ cbs[h2].from # INV_ADDR /\ cbs[h2].to # INV_ADDR
       /\ Enabled(cbs[h1]) /\ Enabled(cbs[h2])
       /\ PageOf(cbs[h2].from) # PageOf(disp.cur_pc)
       /\ Times(h1) = 1 /\ Times(h2) = 0

\* C6: when handlers unregister their own record during a dispatch, every
\* record that was registered and enabled when the dispatch started is
\* invoked exactly once in that dispatch, and no other record is invoked.
C6_SelfUnregisterSafe ==
  WalkDone => \A h \in Handles : Times(h) = IF h \in disp.expect THEN 1 ELSE 0

\* a handler unregistered its own record and a record behind it was invoked
C6_Witness ==
  /\ WalkDone
  /\ \E i \in DOMAIN disp.snap, j \in DOMAIN disp.snap :
       /\ i < j
       /\ ~InList(callback_list_heads[disp.kind], disp.snap[i])
       /\ Times(disp.snap[i]) = 1
       /\ Times(disp.snap[j]) = 1

\* C7: when handlers unregister other records during a dispatch, the walk
\* never continues at a record that has been unregistered and freed, and every
\* record still registered that the walk should invoke is invoked exactly once.
C7_RemovalOfOthersSafe ==
  /\ (disp.pc = "loop" /\ disp.cb_struct # NULL) =>
       InList(callback_list_heads[disp.kind], disp.cb_struct)
  /\ ~disp.uaf
  /\ WalkDone =>
       \A h \in LiveIn(disp.kind) : h \in disp.expect => Times(h) = 1

\* the address filter of a record as the registration API describes it
FilterMatches(kind, cb_struct, cur_pc, next_pc) ==
  CASE kind = BB ->
         \/ cb_struct.ocb_type = "OCB_ALL"
         \/ cb_struct.ocb_type = "OCB_PAGE" /\ PageOf(cb_struct.from) = PageOf(cur_pc)
    [] kind = BE ->
         /\ cb_struct.from # INV_ADDR => PageOf(cb_struct.from) = PageOf(cur_pc)
         /\ cb_struct.to # INV_ADDR => PageOf(cb_struct.to) = PageOf(next_pc)
    [] OTHER -> TRUE

\* C8: a dispatch invokes no record whose condition flag is present and zero,
\* invokes every record whose condition is absent or nonzero and whose address
\* filter matches, and reads the flag anew: a record passed over by the
\* previous dispatch is invoked by this one once its flag is nonzero.
C8_ConditionGating ==
  WalkDone =>
    \A h \in LiveIn(disp.kind) :
      /\ (cbs[h].enabled # NoCond /\ condval[cbs[h].enabled] = 0) => Times(h) = 0
      /\ ( /\ cbs[h].enabled = NoCond \/ condval[cbs[h].enabled] # 0
           /\ FilterMatches(disp.kind, cbs[h], disp.cur_pc, disp.next_pc) )
         => Times(h) = 1
      /\ ( /\ h \in disp.prevSkipped
           /\ condval[cbs[h].enabled] # 0
           /\ FilterMatches(disp.kind, cbs[h], disp.cur_pc, disp.next_pc) )
         => Times(h) = 1

\* a record the previous dispatch passed over is invoked by this one, while a
\* record without condition is invoked by both
C8_Witness ==
  /\ WalkDone
  /\ \E h \in disp.prevSkipped : Times(h) = 1

\* C9: an opcode-range registration with end_opcode < start_opcode returns the
\* null handle, changes no slot of the opcode table, no registry and no other
\* state, and issues no invalidation.
C9_RangeRejection ==
  [][ ( /\ hist' # hist
        /\ hist'.op = "decaf_register_opcode_range_callback"
        /\ hist'.args[3] < hist'.args[2] )
      => /\ hist'.ret = DECAF_NULL_HANDLE
         /\ hist'.flushes = <<>>
         /\ UNCHANGED <<inited, regVars, condval, bbVars, beVars, opVars>>
    ]_vars

\* a reversed range was rejected while the table held a registration
C9_Witness ==
  /\ hist.op = "decaf_register_opcode_range_callback"
  /\ hist.args[3] < hist.args[2]
  /\ hist.ret = DECAF_NULL_HANDLE
  /\ \E i \in OpSlots : instructionCallbacks[i] # NULL

\* C10: a registration on [s, e] within 0 .. 0x1ff makes every slot of [s, e]
\* resolve to the new record and leaves the other slots as they were, so the
\* later registration wins on an overlap; an unregistration empties every slot
\* of the record's range, whoever held it, and leaves the other slots alone.
C10_LastRegistrationWins ==
  [][ /\ ( /\ hist' # hist
           /\ hist'.op = "decaf_register_opcode_range_callback"
           /\ hist'.ret # DECAF_NULL_HANDLE
           /\ hist'.args[2] <= 511 /\ hist'.args[3] <= 511 )
         => \A i \in OpSlots :
              instructionCallbacks'[i] =
                IF hist'.args[2] <= i /\ i <= hist'.args[3]
                THEN hist'.ret ELSE instructionCallbacks[i]
      /\ ( /\ hist' # hist
           /\ hist'.op = "decaf_unregister_opcode_range_callback"
           /\ hist'.ret = 0 )
         => \A i \in OpSlots :
              instructionCallbacks'[i] =
                IF hist'.rec.from <= i /\ i <= hist'.rec.to
                THEN NULL ELSE instructionCallbacks[i]
    ]_vars

\* R1 was unregistered while a later R2 overlapped it: the shared slots of R2
\* are now empty and the rest of R2's range still resolves to R2
C10_Witness ==
  /\ hist.op = "decaf_unregister_opcode_range_callback"
  /\ hist.ret = 0
  /\ \E h2 \in LiveIn(OPC) :
       /\ h2 > hist.args[1]
       /\ \E i \in OpSlots :
            /\ cbs[h2].from <= i /\ i <= cbs[h2].to
            /\ hist.rec.from <= i /\ i <= hist.rec.to
            /\ instructionCallbacks[i] = NULL
       /\ \E j \in OpSlots :
            /\ cbs[h2].from <= j /\ j <= cbs[h2].to
            /\ ~(hist.rec.from <= j /\ j <= hist.rec.to)
            /\ instructionCallbacks[j] = h2

----------------------------------------------------------------------------
\* Vocabulary of the registry properties.

OpcodeRegisterOps == {"decaf_register_opcode_range_callback"}
OpcodeUnregisterOps == {"decaf_unregister_opcode_range_callback"}
RegisterOps == BlockBeginRegisterOps \cup BlockEndRegisterOps
                 \cup OpcodeRegisterOps \cup {"decaf_register_callback"}
UnregisterOps == BlockBeginUnregisterOps \cup BlockEndUnregisterOps
                   \cup OpcodeUnregisterOps \cup {"decaf_unregister_callback"}

\* the event kind the last call named, by its cb_type argument or by its
\* entry point
CallKind ==
  IF hist.op \in GenericOps THEN hist.args[1]
  ELSE IF hist.op \in BlockBeginRegisterOps \cup BlockBeginUnregisterOps THEN BB
  ELSE IF hist.op \in BlockEndRegisterOps \cup BlockEndUnregisterOps THEN BE
  ELSE OPC

\* the handle the last call, an unregistration, was given
CallHandle == IF hist.op = "decaf_unregister_callback" THEN hist.args[2] ELSE hist.args[1]

\* the registry the next state's call names did not hold the handle it was given
UnknownHandleCall ==
  /\ hist' # hist
  /\ hist'.op \in UnregisterOps
  /\ ~InList(callback_list_heads[CallKind'], CallHandle')

\* C11: an unregistration given a handle that the registry of the kind it
\* names does not hold returns an error and changes no registry, no filter
\* count, flag or table, no opcode table slot, and issues no invalidation.
C11_UnknownHandleRejected ==
  [][ UnknownHandleCall =>
        /\ hist'.ret < 0
        /\ hist'.flushes = <<>>
        /\ UNCHANGED <<inited, regVars, condval, bbVars, beVars, opVars>>
    ]_vars

\* the generic unregistration was given, for one kind, the handle of a live
\* record of another kind, and returned an error
C11_Witness ==
  /\ hist.op = "decaf_unregister_callback"
  /\ hist.ret < 0
  /\ \E kind \in Kinds \ {hist.args[1]} : InList(callback_list_heads[kind], hist.args[2])

\* the unregistration entry point that matches a registration entry point
MatchingUnregisterOp(op) ==
  CASE op \in BlockBeginRegisterOps -> "decaf_unregister_optimized_block_begin_callback"
    [] op \in BlockEndRegisterOps -> "decaf_unregister_optimized_block_end_callback"
    [] op \in OpcodeRegisterOps -> "decaf_unregister_opcode_range_callback"
    [] OTHER -> "decaf_unregister_callback"

\* C12: the first unregistration of a handle a registration returned non-null,
\* through the matching entry point, returns success and removes the record
\* from its registry; unregistering the same handle again returns an error.
C12_HandlesUnregisterOnce ==
  [][ /\ ( /\ hist.op \in RegisterOps /\ hist.ret # DECAF_NULL_HANDLE
           /\ hist' # hist
           /\ hist'.op = MatchingUnregisterOp(hist.op)
           /\ CallKind' = CallKind /\ CallHandle' = hist.ret )
         => /\ hist'.ret = 0
            /\ ~InList(callback_list_heads'[CallKind], hist.ret)
      /\ ( /\ hist.op \in UnregisterOps /\ hist.ret = 0
           /\ hist' # hist
           /\ hist'.op = hist.op /\ hist'.args = hist.args )
         => hist'.ret < 0
    ]_vars

\* the kinds whose registry holds handle h
RegistriesOf(h) == {kind \in Kinds : InList(callback_list_heads[kind], h)}

\* the last call was a registration of the kind that returned a handle
Registered(kind) ==
  hist.op \in RegisterOps /\ CallKind = kind /\ hist.ret # DECAF_NULL_HANDLE

\* the last call was an unregistration of the kind that returned success
Unregistered(kind) ==
  hist.op \in UnregisterOps /\ CallKind = kind /\ hist.ret = 0

\* C13: the records reachable from the registry of a kind are the live ones,
\* those a registration of the kind returned and no unregistration has
\* returned success for: a call adds the handle it returns, removes the handle
\* it reports unregistered, and changes no registry otherwise; a handle is
\* reachable from one registry only, once; and is_callback_needed(k) is true
\* iff the registry of k holds a record.
C13_NeededIffLive ==
  [][ /\ \A kind \in Kinds :
           /\ LiveIn(kind)' =
                IF hist' # hist /\ Registered(kind)'
                THEN LiveIn(kind) \cup {hist'.ret}
                ELSE IF hist' # hist /\ Unregistered(kind)'
                THEN LiveIn(kind) \ {CallHandle'}
                ELSE LiveIn(kind)
           /\ decaf_is_callback_needed(kind)' <=> (LiveIn(kind)' # {})
           /\ Len(callback_list_heads'[kind]) = Cardinality(LiveIn(kind)')
      /\ (hist' # hist /\ hist'.op \in RegisterOps /\ hist'.ret # DECAF_NULL_HANDLE)
           => \A kind \in Kinds : hist'.ret \notin LiveIn(kind)
      /\ \A h \in Handles : Cardinality(RegistriesOf(h)') <= 1
    ]_vars

\* handle 1 has been unregistered and a later unregistration of it for kind k2
\* failed: the registry of k2 is empty and is_callback_needed(k2) is false,
\* while handle 2 is live under k1 and is_callback_needed(k1) is true
C13_Witness ==
  /\ hist.op = "decaf_unregister_callback" /\ hist.ret < 0
  /\ cbs[1] = NoRecord
  /\ \E k1 \in Kinds, k2 \in Kinds :
       /\ k1 # k2
       /\ hist.args = <<k2, 1>>
       /\ LiveIn(k1) = {2}
       /\ decaf_is_callback_needed(k1)
       /\ ~decaf_is_callback_needed(k2)

\* live records of the kind, other than h, that a generic registration would
\* have made: any record, of class OCB_ALL for block begin, with both
\* addresses INV_ADDR for block end
OtherGenericRecords(kind, h) ==
  {h2 \in LiveIn(kind) \ {h} :
     /\ kind = BB => cbs[h2].ocb_type = "OCB_ALL"
     /\ kind = BE => cbs[h2].from = INV_ADDR /\ cbs[h2].to = INV_ADDR}

\* C14: a generic registration of a kind other than tlb exec followed by the
\* generic unregistration of the handle it returned restores
\* is_callback_needed(k); the two calls issue one ALL invalidation each if no
\* other generic registration of k is live, and none if one is.
C14_GenericRoundTrip ==
  [][ ( /\ hist.op = "decaf_register_callback"
        /\ hist.ret # DECAF_NULL_HANDLE
        /\ hist.args[1] # TLB
        /\ hist' # hist
        /\ hist'.op = "decaf_unregister_callback"
        /\ hist'.args = <<hist.args[1], hist.ret>> )
      => /\ hist'.ret = 0
         /\ decaf_is_callback_needed(hist.args[1])' <=>
              (LiveIn(hist.args[1]) \ {hist.ret} # {})
         /\ hist.flushes \o hist'.flushes =
              IF OtherGenericRecords(hist.args[1], hist.ret) = {}
              THEN OnlyAllFlush \o OnlyAllFlush
              ELSE <<>>
    ]_vars

\* the next state's call registered or unregistered a block-begin record of
\* class OCB_CONST_NOT or OCB_PAGE_NOT
ReservedClassCall ==
  /\ hist' # hist
  /\ \/ hist'.op \in BlockBeginRegisterOps /\ hist'.ret # DECAF_NULL_HANDLE
     \/ hist'.op \in BlockBeginUnregisterOps \cup {"decaf_unregister_callback"}
          /\ CallKind' = BB /\ hist'.ret = 0
  /\ hist'.rec.ocb_type \in {"OCB_CONST_NOT", "OCB_PAGE_NOT"}

\* C15: registering and unregistering a block-begin record of class CONST_NOT
\* or PAGE_NOT leaves the ALL flag, the ALL count and the PAGE counting set
\* unchanged, issues no invalidation and leaves is_block_begin_needed(pc)
\* unchanged for every pc, whatever other block-begin records are live.
C15_ReservedClassesInert ==
  [][ ReservedClassCall =>
        /\ UNCHANGED <<bEnableAllBlockBeginCallbacks,
                       enableAllBlockBeginCallbacksCount, pOBBPageTable>>
        /\ hist'.flushes = <<>>
        /\ \A pc \in Addr :
             decaf_is_block_begin_callback_needed(pc)' =
               decaf_is_block_begin_callback_needed(pc)
    ]_vars

\* C16: is_block_end_needed(from, to) is true if the global block-end flag is
\* set; otherwise true if from's page is in the from-only set; otherwise false
\* when to is the unknown marker, even if to-only or pair entries exist;
\* otherwise true iff to's page is in the to-only set or the (from page, to
\* page) pair is in the map.
C16_BlockEndNeededOrder ==
  \A from \in Addr, to \in Addr :
    LET needed == decaf_is_block_end_callback_needed(from, to)
        fromOnly == pOBEFromPageTable[PageOf(from)] > 0
        toOnly == pOBEToPageTable[PageOf(to)] > 0
        pair == pOBEPageMap[PageOf(from)][PageOf(to)] > 0
    IN  /\ bEnableAllBlockEndCallbacks = 1 => needed
        /\ bEnableAllBlockEndCallbacks = 0 /\ fromOnly => needed
        /\ bEnableAllBlockEndCallbacks = 0 /\ ~fromOnly /\ to = INV_ADDR
             => ~needed
        /\ bEnableAllBlockEndCallbacks = 0 /\ ~fromOnly /\ to # INV_ADDR
             => (needed <=> (toOnly \/ pair))

\* the query is refused for an unknown target although a to-only entry and a
\* pair entry cover the page the marker falls on
C16_Witness ==
  /\ bEnableAllBlockEndCallbacks = 0
  /\ \E from \in Addr :
       /\ pOBEFromPageTable[PageOf(from)] = 0
       /\ pOBEToPageTable[PageOf(INV_ADDR)] > 0
       /\ pOBEPageMap[PageOf(from)][PageOf(INV_ADDR)] > 0
       /\ ~decaf_is_block_end_callback_needed(from, INV_ADDR)
       /\ \E to \in Addr \ {INV_ADDR} :
            /\ PageOf(to) = PageOf(INV_ADDR)
            /\ decaf_is_block_end_callback_needed(from, to)

\* the next state's call registered or unregistered a tlb-exec callback
TlbExecCall ==
  /\ hist' # hist
  /\ hist'.op \in {"decaf_register_callback", "decaf_unregister_callback"}
  /\ CallKind' = TLB

\* C17: registering or unregistering a tlb-exec callback never issues a cache
\* invalidation, whether or not the tlb-exec registry becomes non-empty or
\* empty, and changes no block-begin or block-end filter state.
C17_TlbExecNeverInvalidates ==
  [][ TlbExecCall =>
        /\ hist'.flushes = <<>>
        /\ UNCHANGED <<bbVars, beVars>>
    ]_vars

\* the last tlb-exec record has just been unregistered, so the registry went
\* from empty to non-empty and back, and the call issued nothing
C17_Witness ==
  /\ hist.op = "decaf_unregister_callback"
  /\ hist.args[1] = TLB
  /\ hist.ret = 0
  /\ QLIST_EMPTY(callback_list_heads[TLB])
  /\ hist.flushes = <<>>

\* the next state's call registered or unregistered a block-end record
BlockEndCall ==
  /\ hist' # hist
  /\ \/ hist'.op \in BlockEndRegisterOps /\ hist'.ret # DECAF_NULL_HANDLE
     \/ hist'.op \in BlockEndUnregisterOps \cup {"decaf_unregister_callback"}
          /\ CallKind' = BE /\ hist'.ret = 0

\* a count moved between zero and positive
ZeroCrossed(before, after) == (before = 0) # (after = 0)

\* exactly one PAGE-scope invalidation, on the page of address a
OnePageFlushOn(fl, a) ==
  /\ Len(fl) = 1
  /\ fl[1][1] = PAGE_LEVEL
  /\ PageOf(fl[1][2]) = PageOf(a)

\* C18: a 0->1 or 1->0 transition of a to-only block-end entry always issues
\* an ALL-scope invalidation; such a transition of a from-only entry or of a
\* (from, to) pair entry issues exactly one PAGE-scope invalidation on from's
\* page and no ALL-scope invalidation; for both block-end registration entry
\* points and for unregistration.
C18_BlockEndInvalidationScope ==
  [][ BlockEndCall =>
        LET from == hist'.rec.from
            to == hist'.rec.to
        IN  /\ from = INV_ADDR /\ to # INV_ADDR
                 /\ ZeroCrossed(pOBEToPageTable[PageOf(to)],
                                pOBEToPageTable'[PageOf(to)])
               => hist'.flushes = OnlyAllFlush
            /\ from # INV_ADDR /\ to = INV_ADDR
                 /\ ZeroCrossed(pOBEFromPageTable[PageOf(from)],
                                pOBEFromPageTable'[PageOf(from)])
               => OnePageFlushOn(hist'.flushes, from)
            /\ from # INV_ADDR /\ to # INV_ADDR
                 /\ ZeroCrossed(pOBEPageMap[PageOf(from)][PageOf(to)],
                                pOBEPageMap'[PageOf(from)][PageOf(to)])
               => OnePageFlushOn(hist'.flushes, from)
    ]_vars

\* the last pair entry of its pages has just been unregistered with one
\* PAGE-scope invalidation while a to-only entry stays live
C18_Witness ==
  /\ hist.op \in BlockEndUnregisterOps
  /\ hist.ret = 0
  /\ hist.rec.from # INV_ADDR
  /\ hist.rec.to # INV_ADDR
  /\ pOBEPageMap[PageOf(hist.rec.from)][PageOf(hist.rec.to)] = 0
  /\ OnePageFlushOn(hist.flushes, hist.rec.from)
  /\ \E k \in Addr : pOBEToPageTable[k] > 0

\* C19: an accepted opcode-range registration writes only opcode-table slots
\* in [0, 0x200), and the record's normalized range satisfies
\* start <= end <= 0x1ff.
C19_OpcodeRangeConfined ==
  [][ (/\ hist' # hist
       /\ hist'.op \in OpcodeRegisterOps
       /\ hist'.ret # DECAF_NULL_HANDLE)
      => /\ hist'.rec.from <= hist'.rec.to
         /\ hist'.rec.to <= 511
         /\ oob' = oob
         /\ \A i \in OpSlots :
              instructionCallbacks'[i] # instructionCallbacks[i]
                => hist'.rec.from <= i /\ i <= hist'.rec.to /\ i < 512
    ]_vars

\* the last opcode-range dispatch found a record whose condition points to a
\* value other than the match-all value
ConditionalOpcodeDispatch ==
  /\ opdisp.outcome \in {"invoked", "skipped"}
  /\ opdisp.enabled # NoCond
  /\ opdisp.value # DECAF_ALL

\* C20: opcode-range dispatch classifies the transition (eip, next_eip) as
\* user->user, user->kernel, kernel->user or kernel->kernel against the kernel
\* boundary, and when the registration's condition is not the match-all value
\* it invokes the handler only if the condition includes that class and skips
\* the invocation otherwise.
C20_OpcodeConditionGates ==
  ConditionalOpcodeDispatch =>
    (opdisp.outcome = "invoked"
       <=> BitAnd(opdisp.value, TransitionClass(opdisp.eip, opdisp.next_eip)) # 0)

\* the next state's call registered (d = 1) or unregistered (d = -1) a
\* block-begin record of class OCB_PAGE
PageClassCall(d) ==
  /\ hist' # hist
  /\ \/ d = 1 /\ hist'.op \in BlockBeginRegisterOps /\ hist'.ret # DECAF_NULL_HANDLE
     \/ d = -1 /\ hist'.op \in BlockBeginUnregisterOps \cup {"decaf_unregister_callback"}
          /\ CallKind' = BB /\ hist'.ret = 0
  /\ hist'.rec.ocb_type = "OCB_PAGE"

\* C21: for any address a, page-aligned or not, a PAGE-class block-begin
\* registration at a increments the counting-set entry keyed by a's masked
\* page address and its unregistration decrements that same entry; when the
\* unregistration leaves no block-begin registration, is_block_begin_needed(pc)
\* is false for every pc on a's page.
C21_PageKeyMasked ==
  [][ \A d \in {1, -1} :
        PageClassCall(d) =>
          LET a == hist'.rec.from IN
          /\ pOBBPageTable' =
               [pOBBPageTable EXCEPT ![PageOf(a)] = pOBBPageTable[PageOf(a)] + d]
          /\ (d = -1 /\ QLIST_EMPTY(callback_list_heads'[BB]))
               => \A pc \in Addr :
                    PageOf(pc) = PageOf(a)
                      => ~decaf_is_block_begin_callback_needed(pc)'
    ]_vars

\* C22: whenever an opcode-range registration or unregistration changes the
\* result of decaf_is_callback_needed_for_opcode(op) for some op in
\* [0, 0x200), that same call issues an ALL-scope cache invalidation.
C22_OpcodeChangeInvalidates ==
  [][ (/\ hist' # hist
       /\ hist'.op \in OpcodeRegisterOps \cup OpcodeUnregisterOps
       /\ \E op \in OpSlots :
            decaf_is_callback_needed_for_opcode(op)'
              # decaf_is_callback_needed_for_opcode(op))
      => \E i \in DOMAIN hist'.flushes : hist'.flushes[i][1] = ALL_CACHE
    ]_vars

\* C23: at block-begin dispatch an enabled PAGE-class record is invoked iff
\* the page of the concrete block's start address equals the page of the
\* record's registered address, and an enabled ALL-class record is invoked for
\* every block.
C23_BlockBeginPageMatching ==
  (WalkDone /\ disp.kind = BB) =>
    \A h \in LiveIn(BB) :
      Enabled(cbs[h]) =>
        /\ cbs[h].ocb_type = "OCB_PAGE" =>
             IF PageOf(cbs[h].from) = PageOf(disp.cur_pc)
             THEN Times(h) = 1 ELSE Times(h) = 0
        /\ cbs[h].ocb_type = "OCB_ALL" => Times(h) = 1

\* a block that starts on the page of one PAGE record, at another address than
\* the registered one, and off the page of a second PAGE record: the first was
\* invoked and the second was not
C23_Witness ==
  /\ WalkDone /\ disp.kind = BB
  /\ \E h1 \in LiveIn(BB), h2 \in LiveIn(BB) :
       /\ cbs[h1].ocb_type = "OCB_PAGE" /\ cbs[h2].ocb_type = "OCB_PAGE"
       /\ Enabled(cbs[h1]) /\ Enabled(cbs[h2])
       /\ cbs[h1].from # disp.cur_pc
       /\ PageOf(cbs[h1].from) = PageOf(disp.cur_pc)
       /\ PageOf(cbs[h2].from) # PageOf(disp.cur_pc)
       /\ Times(h1) = 1 /\ Times(h2) = 0

\* C24: whenever a register or unregister call has returned, the block-begin
\* global flag is set iff the block-begin global count is > 0, the block-end
\* global flag is set iff the block-end global count is > 0, and neither count
\* is negative.
C24_FlagIffCount ==
  /\ (bEnableAllBlockBeginCallbacks = 1) <=> (enableAllBlockBeginCallbacksCount > 0)
  /\ (bEnableAllBlockEndCallbacks = 1) <=> (enableAllBlockEndCallbacksCount > 0)
  /\ enableAllBlockBeginCallbacksCount >= 0
  /\ enableAllBlockEndCallbacksCount >= 0

\* a record of a class that registration does not count has just been
\* unregistered while the block-begin count was zero: the count is still zero
C24_Witness ==
  /\ hist.op \in BlockBeginUnregisterOps
  /\ hist.ret = 0
  /\ hist.rec.ocb_type \in {"OCB_CONST_NOT", "OCB_PAGE_NOT"}
  /\ hist.flushes = <<>>
  /\ enableAllBlockBeginCallbacksCount = 0
  /\ bEnableAllBlockBeginCallbacks = 0

\* C25: for every event kind, each time dispatch invokes a handler, the
\* payload's cbhandle field equals the handle of the record whose handler is
\* being invoked.
C25_CbhandleIsRecord ==
  /\ disp.pc = "handler" => disp.cbhandle = disp.cb_struct
  /\ opdisp.outcome = "invoked" => opdisp.cbhandle = opdisp.cb_struct

\* the next state's call is a registration that needs a filter table, made
\* before decaf_callback_init: an OCB_PAGE block-begin registration, or a
\* block-end registration with at least one specific address
NeedsMissingTable ==
  /\ hist' # hist
  /\ ~inited
  /\ \/ hist'.op \in BlockBeginRegisterOps /\ hist'.args[3] = "OCB_PAGE"
     \/ /\ hist'.op \in BlockEndRegisterOps
        /\ hist'.args[2] # INV_ADDR \/ hist'.args[3] # INV_ADDR

\* C26: a registration that needs a filter table which is not initialized
\* returns the null handle, inserts no record into any registry, changes no
\* flag or count and issues no invalidation.
C26_MissingTableRejected ==
  [][ NeedsMissingTable =>
        /\ hist'.ret = DECAF_NULL_HANDLE
        /\ hist'.flushes = <<>>
        /\ UNCHANGED <<inited, regVars, condval, bbVars, beVars, opVars>>
    ]_vars

\* a block-end registration with a specific address has been rejected before
\* decaf_callback_init while a global block-end record was live
C26_Witness ==
  /\ ~inited
  /\ hist.op \in BlockEndRegisterOps
  /\ hist.args[2] # INV_ADDR
  /\ hist.ret = DECAF_NULL_HANDLE
  /\ ~QLIST_EMPTY(callback_list_heads[BE])
  /\ bEnableAllBlockEndCallbacks = 1

\* C27: after any sequence of register and unregister calls through any of
\* the public entry points, every non-empty slot of the opcode dispatch table
\* references a record that is still live in the opcode-range registry.
C27_OpcodeSlotsLive ==
  \A i \in OpSlots :
    instructionCallbacks[i] # NULL =>
      InList(callback_list_heads[OPC], instructionCallbacks[i])

\* addresses other than the unknown marker
ConcreteAddr == Addr \ {INV_ADDR}

\* a live block-end record covers the transition (from, to)
BlockEndRecordCovers(cb_struct, from, to) ==
  /\ cb_struct.from # INV_ADDR => PageOf(cb_struct.from) = PageOf(from)
  /\ cb_struct.to # INV_ADDR => PageOf(cb_struct.to) = PageOf(to)

\* C28: after any sequence of block-end registrations and unregistrations,
\* for concrete from and to, is_block_end_needed(from, to) is true iff some
\* live block-end record has both addresses wildcard, or to wildcard and its
\* from on from's page, or from wildcard and its to on to's page, or its from
\* on from's page and its to on to's page.
C28_BlockEndMirrorsRecords ==
  \A from \in ConcreteAddr, to \in ConcreteAddr :
    decaf_is_block_end_callback_needed(from, to)
      <=> \E h \in LiveIn(BE) : BlockEndRecordCovers(cbs[h], from, to)

\* a from-only record at an unaligned address has just been unregistered, one
\* record with a specific to stays live, and the query tells the transitions
\* it covers from those it does not
C28_Witness ==
  /\ hist.op \in BlockEndUnregisterOps
  /\ hist.ret = 0
  /\ hist.rec.from # INV_ADDR /\ hist.rec.to = INV_ADDR
  /\ hist.rec.from # PageOf(hist.rec.from)
  /\ \E h \in LiveIn(BE) : cbs[h].to # INV_ADDR
  /\ \E from \in ConcreteAddr, to \in ConcreteAddr :
       decaf_is_block_end_callback_needed(from, to)
  /\ \E from \in ConcreteAddr, to \in ConcreteAddr :
       ~decaf_is_block_end_callback_needed(from, to)

\* C29: a record of event kind k that a handler registers while a dispatch of
\* k is in progress is not invoked during that dispatch call, and is
\* considered by the next dispatch of k.
C29_LateRecordWaits ==
  /\ disp.walked =>
       \A h \in Handles : ~InList(disp.snap, h) => Times(h) = 0
  /\ WalkDone =>
       \A h \in disp.prevLate :
         InList(callback_list_heads[disp.kind], h) =>
           /\ InList(disp.snap, h)
           /\ Times(h) =
                IF Invokes(disp.kind, cbs[h], disp.cur_pc, disp.next_pc)
                THEN 1 ELSE 0

\* the dispatch under way has invoked a record that was registered while the
\* previous dispatch was in progress, and a handler of this dispatch has
\* registered a record the walk has not invoked
C29_Witness ==
  /\ WalkDone
  /\ \E h \in disp.prevLate : Times(h) = 1
  /\ \E h \in Handles :
       /\ InList(callback_list_heads[disp.kind], h)
       /\ ~InList(disp.snap, h)
       /\ Times(h) = 0

====
